---- MODULE Spec2Model ----
(***************************************************************************)
(* maskTiff4Maud: the session object clearMaskGui of src/maskTiff4Maud.py. *)
(* A 2D array is a sequence of rows, each row a sequence of integers; the  *)
(* Python value None is the empty sequence.  Intensities and shifts are    *)
(* integer valued here (numpy adds the float shift to the whole array).    *)
(***************************************************************************)
EXTENDS Integers, Sequences, FiniteSets, TLC

VARIABLES
  image,            \* self.image.data, or None
  mask,             \* self.mask.data, or None
  plotimagedata,    \* self.plotimagedata: <<array, resolution, largest dim>> or None
  plotmaskdata,     \* self.plotmaskdata:  <<array, resolution, largest dim>> or None
  resolution,       \* self.resolution
  colorScalingLow,  \* value of the slider self.colorScalingLow
  colorScalingHigh, \* value of the slider self.colorScalingHigh
  intensitycropfactorlow,   \* self.intensitycropfactorlow, as <<numerator, denominator>>
  intensitycropfactorhigh,  \* self.intensitycropfactorhigh, as <<numerator, denominator>>
  nrotmask,         \* self.nrotmask
  intensityshift,   \* self.intensityshift
  flipud,           \* self.flipud
  fliplr,           \* self.fliplr
  donewplot,        \* self.donewplot
  rotBox,           \* text of the line edit self.rotBox
  flipV,            \* check state of self.flipV
  flipH,            \* check state of self.flipH
  running,          \* the process is alive
  last              \* what the most recent handler (or engine call) did

vars == <<image, mask, plotimagedata, plotmaskdata, resolution, colorScalingLow,
          colorScalingHigh, intensitycropfactorlow, intensitycropfactorhigh,
          nrotmask, intensityshift, flipud, fliplr, donewplot, rotBox, flipV,
          flipH, running, last>>

None == << >>

----
\* Bounds of the model.

\* The arrays of the engine specification have at most MaxCells pixels.
MaxCells == 2
\* The rotation counts of the engine specification range over 0..MaxRot.
MaxRot == 3
\* The rotation counts typed into the rotation box range over -1..MaxTypedRot.
MaxTypedRot == 1
\* The intensity shifts range over 0..MaxShift.
MaxShift == 1

----
\* numpy array helpers

Rows(a) == Len(a)
Cols(a) == Len(a[1])
Shape(a) == <<Rows(a), Cols(a)>>

\* numpy.transpose of a 2D array
numpy_transpose(m) == [c \in 1..Cols(m) |-> [r \in 1..Rows(m) |-> m[r][c]]]

numpy_flipudLastRow(m) == [r \in 1..Rows(m) |-> m[Rows(m)]]
\* numpy.flipud: reverse the order of the rows
numpy_flipud(m) == [r \in 1..Rows(m) |-> m[Rows(m) + 1 - r]]

\* numpy.fliplr: reverse the order of the columns
numpy_fliplr(m) == [r \in 1..Rows(m) |-> [c \in 1..Cols(m) |-> m[r][Cols(m) + 1 - c]]]

numpy_rot90ZeroAsTwo(m, k) ==
  LET kk == k % 4
  IN  IF kk = 0 \/ kk = 2 THEN numpy_fliplr(numpy_flipud(m))
      ELSE IF kk = 1 THEN numpy_transpose(numpy_fliplr(m))
      ELSE numpy_fliplr(numpy_transpose(m))
numpy_rot90NoTranspose(m, k) ==
  LET kk == k % 4
  IN  IF kk = 0 THEN m
      ELSE IF kk = 2 THEN numpy_fliplr(numpy_flipud(m))
      ELSE IF kk = 1 THEN numpy_fliplr(m)
      ELSE numpy_flipud(m)
numpy_rot90Clockwise(m, k) ==
  LET kk == k % 4
  IN  IF kk = 0 THEN m
      ELSE IF kk = 2 THEN numpy_fliplr(numpy_flipud(m))
      ELSE IF kk = 1 THEN numpy_fliplr(numpy_transpose(m))
      ELSE numpy_transpose(numpy_fliplr(m))
numpy_rot90ThreeAsOne(m, k) ==
  LET kk == k % 4
  IN  IF kk = 0 THEN m
      ELSE IF kk = 2 THEN numpy_fliplr(numpy_flipud(m))
      ELSE numpy_transpose(numpy_fliplr(m))
\* numpy.rot90(m, k): k is reduced modulo 4; k = 1 flips the columns and
\* transposes, k = 2 flips both axes, k = 3 transposes and flips the columns.
numpy_rot90(m, k) ==
  LET kk == k % 4
  IN  IF kk = 0 THEN m
      ELSE IF kk = 2 THEN numpy_fliplr(numpy_flipud(m))
      ELSE IF kk = 1 THEN numpy_transpose(numpy_fliplr(m))
      ELSE numpy_fliplr(numpy_transpose(m))

\* array + scalar: a new array, element by element
AddScalar(a, s) == [r \in 1..Rows(a) |-> [c \in 1..Cols(a) |-> a[r][c] + s]]

\* the least element of a non-empty set of integers (Python's min)
Min(S) == CHOOSE x \in S : \A y \in S : x <= y

Max2(a, b) == IF a >= b THEN a ELSE b


----
\* The three places that align the mask.

AlignExportFlipFirst(m, k, fud, flr) ==
  LET a == IF fud THEN numpy_flipud(m) ELSE m
      b == IF flr THEN numpy_fliplr(a) ELSE a
  IN  numpy_rot90(b, k)
\* correctedData, lines 463-468: rotate (always), then flipud, then fliplr
AlignExport(m, k, fud, flr) ==
  LET a == numpy_rot90(m, k)
      b == IF fud THEN numpy_flipud(a) ELSE a
  IN  IF flr THEN numpy_fliplr(b) ELSE b

\* checkForNegativeValues, lines 443-449: rotate only when nrotmask > 0
AlignCheck(m, k, fud, flr) ==
  LET a == IF k > 0 THEN numpy_rot90(m, k) ELSE m
      b == IF fud THEN numpy_flipud(a) ELSE a
  IN  IF flr THEN numpy_fliplr(b) ELSE b

\* change_mask, lines 355-361: rotate only when nrotmask > 0
AlignPlot(m, k, fud, flr) ==
  LET a == IF k > 0 THEN numpy_rot90(m, k) ELSE m
      b == IF fud THEN numpy_flipud(a) ELSE a
  IN  IF flr THEN numpy_fliplr(b) ELSE b

----
\* The engine: checkForNegativeValues and correctedData.

\* the values data[idx] of a boolean-mask selection (idx = maskdata # 1)
Unmasked(thisdata, maskdata) ==
  {thisdata[r][c] : <<r, c>> \in
     {p \in (1..Rows(thisdata)) \X (1..Cols(thisdata)) : maskdata[p[1]][p[2]] # 1}}

checkForNegativeValuesStrict(img, msk, k, fud, flr, shift) ==
  IF msk = None \/ img = None THEN [ret |-> "False", warn |-> None, maskdata |-> None]
  ELSE
    LET thisdata == AddScalar(img, shift)
        maskdata == AlignCheck(msk, k, fud, flr)
    IN  IF Shape(maskdata) # Shape(thisdata)
        THEN [ret |-> "IndexError", warn |-> None, maskdata |-> maskdata]
        ELSE LET sel == Unmasked(thisdata, maskdata)
             IN  IF sel = {} THEN [ret |-> "ValueError", warn |-> None, maskdata |-> maskdata]
                 ELSE IF Min(sel) <= 0
                      THEN [ret |-> "None", warn |-> << shift - Min(sel) + 1 >>, maskdata |-> maskdata]
                      ELSE [ret |-> "None", warn |-> None, maskdata |-> maskdata]
checkForNegativeValuesBroadcast(img, msk, k, fud, flr, shift) ==
  IF msk = None \/ img = None THEN [ret |-> "False", warn |-> None, maskdata |-> None]
  ELSE
    LET thisdata == AddScalar(img, shift)
        maskdata == AlignCheck(msk, k, fud, flr)
    IN  IF Shape(maskdata) # Shape(thisdata)
        THEN [ret |-> "None", warn |-> None, maskdata |-> maskdata]
        ELSE LET sel == Unmasked(thisdata, maskdata)
             IN  IF sel = {} THEN [ret |-> "ValueError", warn |-> None, maskdata |-> maskdata]
                 ELSE IF Min(sel) < 0
                      THEN [ret |-> "None", warn |-> << shift - Min(sel) >>, maskdata |-> maskdata]
                      ELSE [ret |-> "None", warn |-> None, maskdata |-> maskdata]
checkForNegativeValuesNoShift(img, msk, k, fud, flr, shift) ==
  IF msk = None \/ img = None THEN [ret |-> "False", warn |-> None, maskdata |-> None]
  ELSE
    LET thisdata == AddScalar(img, shift)
        maskdata == AlignCheck(msk, k, fud, flr)
    IN  IF Shape(maskdata) # Shape(thisdata)
        THEN [ret |-> "IndexError", warn |-> None, maskdata |-> maskdata]
        ELSE LET sel == Unmasked(thisdata, maskdata)
             IN  IF sel = {} THEN [ret |-> "ValueError", warn |-> None, maskdata |-> maskdata]
                 ELSE IF Min(sel) < 0
                      THEN [ret |-> "None", warn |-> << - Min(sel) - shift >>, maskdata |-> maskdata]
                      ELSE [ret |-> "None", warn |-> None, maskdata |-> maskdata]
checkForNegativeValuesGuardAnd(img, msk, k, fud, flr, shift) ==
  IF msk = None /\ img = None THEN [ret |-> "False", warn |-> None, maskdata |-> None]
  ELSE IF msk = None \/ img = None
  THEN [ret |-> "AttributeError", warn |-> None, maskdata |-> None]
  ELSE
    LET thisdata == AddScalar(img, shift)
        maskdata == AlignCheck(msk, k, fud, flr)
    IN  IF Shape(maskdata) # Shape(thisdata)
        THEN [ret |-> "IndexError", warn |-> None, maskdata |-> maskdata]
        ELSE LET sel == Unmasked(thisdata, maskdata)
             IN  IF sel = {} THEN [ret |-> "ValueError", warn |-> None, maskdata |-> maskdata]
                 ELSE IF Min(sel) < 0
                      THEN [ret |-> "None", warn |-> << shift - Min(sel) >>, maskdata |-> maskdata]
                      ELSE [ret |-> "None", warn |-> None, maskdata |-> maskdata]
\* checkForNegativeValues, lines 439-454.  ret is what the call does: it
\* returns False (nothing loaded), returns None, or raises; warn is <<r>> when
\* the warning box shows the recommended shift r, None when no box is shown.
\* A boolean index of another shape than the array raises IndexError; min()
\* of an empty selection raises ValueError.
checkForNegativeValues(img, msk, k, fud, flr, shift) ==
  IF msk = None \/ img = None THEN [ret |-> "False", warn |-> None, maskdata |-> None]
  ELSE
    LET thisdata == AddScalar(img, shift)
        maskdata == AlignCheck(msk, k, fud, flr)
    IN  IF Shape(maskdata) # Shape(thisdata)
        THEN [ret |-> "IndexError", warn |-> None, maskdata |-> maskdata]
        ELSE LET sel == Unmasked(thisdata, maskdata)
             IN  IF sel = {} THEN [ret |-> "ValueError", warn |-> None, maskdata |-> maskdata]
                 ELSE IF Min(sel) < 0
                      THEN [ret |-> "None", warn |-> << shift - Min(sel) >>, maskdata |-> maskdata]
                      ELSE [ret |-> "None", warn |-> None, maskdata |-> maskdata]

correctedDataNoShift(img, msk, k, fud, flr, shift) ==
  IF msk = None \/ img = None THEN [ret |-> "False", data |-> None, image |-> img, maskdata |-> None]
  ELSE
    LET thisdata == img
        maskdata == AlignExport(msk, k, fud, flr)
    IN  IF Shape(maskdata) # Shape(thisdata)
        THEN [ret |-> "IndexError", data |-> None, image |-> img, maskdata |-> maskdata]
        ELSE [ret |-> "array",
              data |-> [r \in 1..Rows(thisdata) |-> [c \in 1..Cols(thisdata) |->
                          IF maskdata[r][c] = 1 THEN -1 ELSE thisdata[r][c]]],
              image |-> img, maskdata |-> maskdata]
correctedDataBlockOnNegative(img, msk, k, fud, flr, shift) ==
  IF msk = None \/ img = None THEN [ret |-> "False", data |-> None, image |-> img, maskdata |-> None]
  ELSE
    LET thisdata == AddScalar(img, shift)
        maskdata == AlignExport(msk, k, fud, flr)
    IN  IF Shape(maskdata) # Shape(thisdata)
        THEN [ret |-> "IndexError", data |-> None, image |-> img, maskdata |-> maskdata]
        ELSE IF \E v \in Unmasked(thisdata, maskdata) : v < 0
        THEN [ret |-> "False", data |-> None, image |-> img, maskdata |-> maskdata]
        ELSE [ret |-> "array",
              data |-> [r \in 1..Rows(thisdata) |-> [c \in 1..Cols(thisdata) |->
                          IF maskdata[r][c] = 1 THEN -1 ELSE thisdata[r][c]]],
              image |-> img, maskdata |-> maskdata]
correctedDataFromPlot(img, msk, k, fud, flr, shift) ==
  IF msk = None \/ img = None THEN [ret |-> "False", data |-> None, image |-> img, maskdata |-> None]
  ELSE
    LET thisdata == AddScalar(img, shift)
        maskdata == IF plotmaskdata # None THEN plotmaskdata[1]
                    ELSE AlignExport(msk, k, fud, flr)
    IN  IF Shape(maskdata) # Shape(thisdata)
        THEN [ret |-> "IndexError", data |-> None, image |-> img, maskdata |-> maskdata]
        ELSE [ret |-> "array",
              data |-> [r \in 1..Rows(thisdata) |-> [c \in 1..Cols(thisdata) |->
                          IF maskdata[r][c] = 1 THEN -1 ELSE thisdata[r][c]]],
              image |-> img, maskdata |-> maskdata]
correctedDataMaskZero(img, msk, k, fud, flr, shift) ==
  IF msk = None \/ img = None THEN [ret |-> "False", data |-> None, image |-> img, maskdata |-> None]
  ELSE
    LET thisdata == AddScalar(img, shift)
        maskdata == AlignExport(msk, k, fud, flr)
    IN  IF Shape(maskdata) # Shape(thisdata)
        THEN [ret |-> "IndexError", data |-> None, image |-> img, maskdata |-> maskdata]
        ELSE [ret |-> "array",
              data |-> [r \in 1..Rows(thisdata) |-> [c \in 1..Cols(thisdata) |->
                          IF maskdata[r][c] # 0 THEN -1 ELSE thisdata[r][c]]],
              image |-> img, maskdata |-> maskdata]
correctedDataTruncate(img, msk, k, fud, flr, shift) ==
  IF msk = None \/ img = None THEN [ret |-> "False", data |-> None, image |-> img, maskdata |-> None]
  ELSE
    LET thisdata == AddScalar(img, shift)
        maskdata == AlignExport(msk, k, fud, flr)
    IN  [ret |-> "array",
         data |-> [r \in 1..Rows(thisdata) |-> [c \in 1..Cols(thisdata) |->
                     IF /\ r <= Rows(maskdata) /\ c <= Cols(maskdata)
                        /\ maskdata[r][c] = 1
                     THEN -1 ELSE thisdata[r][c]]],
         image |-> img, maskdata |-> maskdata]
correctedDataInPlace(img, msk, k, fud, flr, shift) ==
  IF msk = None \/ img = None THEN [ret |-> "False", data |-> None, image |-> img, maskdata |-> None]
  ELSE
    LET thisdata == AddScalar(img, shift)
        maskdata == AlignExport(msk, k, fud, flr)
    IN  IF Shape(maskdata) # Shape(thisdata)
        THEN [ret |-> "IndexError", data |-> None, image |-> thisdata, maskdata |-> maskdata]
        ELSE LET d == [r \in 1..Rows(thisdata) |-> [c \in 1..Cols(thisdata) |->
                          IF maskdata[r][c] = 1 THEN -1 ELSE thisdata[r][c]]]
             IN  [ret |-> "array", data |-> d, image |-> d, maskdata |-> maskdata]
\* correctedData, lines 459-471.  ret: the call returns False (nothing
\* loaded), returns the array data, or raises IndexError (the boolean index
\* maskdata == 1 has another shape than thisdata).  image is self.image.data
\* after the call: thisdata is a new array (image.data + shift), so the
\* assignment thisdata[idx] = -1 does not reach the loaded image.
correctedData(img, msk, k, fud, flr, shift) ==
  IF msk = None \/ img = None THEN [ret |-> "False", data |-> None, image |-> img, maskdata |-> None]
  ELSE
    LET thisdata == AddScalar(img, shift)
        maskdata == AlignExport(msk, k, fud, flr)
    IN  IF Shape(maskdata) # Shape(thisdata)
        THEN [ret |-> "IndexError", data |-> None, image |-> img, maskdata |-> maskdata]
        ELSE [ret |-> "array",
              data |-> [r \in 1..Rows(thisdata) |-> [c \in 1..Cols(thisdata) |->
                          IF maskdata[r][c] = 1 THEN -1 ELSE thisdata[r][c]]],
              image |-> img, maskdata |-> maskdata]

----
\* Display helpers.

DefaultResolution == 1500

\* scipy.misc.imresize(arr, 1.0 * res / maxdim): the reduced image is a
\* function of the array and of the ratio; it is kept as that triple.
imresize(arr, res, maxdim) == <<arr, res, maxdim>>

\* max(obj.dim1, obj.dim2) of a loaded fabio image
MaxDimOf(a) == Max2(Cols(a), Rows(a))

\* numpy.power(10., v / 10.) for a slider value v that is a multiple of 10,
\* as <<numerator, denominator>>
RECURSIVE Pow10Pos(_)
Pow10Pos(e) == IF e <= 0 THEN 1 ELSE 10 * Pow10Pos(e - 1)
CropFactor(v) ==
  IF v >= 0 THEN <<Pow10Pos(v \div 10), 1>> ELSE <<1, Pow10Pos((0 - v) \div 10)>>

\* "%d" % n, and int(text): a text is <<n>> when it is the decimal form of
\* the integer n, and NotANumber when int() raises ValueError on it.
NotANumber == << >>
FormatInt(n) == <<n>>
IsIntText(t) == Len(t) = 1
int(t) == t[1]

\* the record of what a handler did
NoLast(op) ==
  [op |-> op, exc |-> "", check |-> "", warn |-> None, nodata |-> FALSE,
   ret |-> "", data |-> None, maskdata |-> None, written |-> None]

----
\* The small arrays, rotation counts and shifts.

IntVals == {-2, 0}
MaskVals == {0, 1, 2}
Shapes == {d \in (1..MaxCells) \X (1..MaxCells) : d[1] * d[2] <= MaxCells}
ArraysOver(vals) == UNION {[1..d[1] -> [1..d[2] -> vals]] : d \in Shapes}
RotCounts == 0..MaxRot
Shifts == 0..MaxShift

----
\* The session: the handlers of clearMaskGui, run by the Qt event loop.

\* The files the user can open: images and masks.
imageNeg == <<<<-1, 10>>, <<10, 10>>>>
imageTall == <<<<7, -1>>, <<8, 9>>, <<4, 6>>>>
ImageFiles == {imageNeg, imageTall}

maskDiag == <<<<1, 0>>, <<0, 1>>>>
maskWide == <<<<1, 0, 0>>, <<0, 0, 0>>>>
MaskFiles == {maskDiag, maskWide}

\* the texts typed into the rotation box, the shift box and the resolution box
RotTexts == {FormatInt(n) : n \in (0 - 1)..MaxTypedRot} \cup {NotANumber}
ShiftTexts == {FormatInt(n) : n \in Shifts} \cup {NotANumber}
OtherResolution == 750
ResolutionTexts == {FormatInt(DefaultResolution), FormatInt(OtherResolution)}
\* the positions the two colour sliders are moved to
SliderSettings == {<<0, 0>>, <<10, 0 - 10>>}

\* the attributes of the session as a record
Cur ==
  [image |-> image, mask |-> mask, plotimagedata |-> plotimagedata,
   plotmaskdata |-> plotmaskdata, resolution |-> resolution,
   colorScalingLow |-> colorScalingLow, colorScalingHigh |-> colorScalingHigh,
   intensitycropfactorlow |-> intensitycropfactorlow,
   intensitycropfactorhigh |-> intensitycropfactorhigh,
   nrotmask |-> nrotmask, intensityshift |-> intensityshift,
   flipud |-> flipud, fliplr |-> fliplr, donewplot |-> donewplot,
   rotBox |-> rotBox, flipV |-> flipV, flipH |-> flipH]

\* __init__, lines 142-157
Fresh ==
  [image |-> None, mask |-> None, plotimagedata |-> None, plotmaskdata |-> None,
   resolution |-> DefaultResolution, colorScalingLow |-> 0, colorScalingHigh |-> 0,
   intensitycropfactorlow |-> <<1, 1>>, intensitycropfactorhigh |-> <<1, 1>>,
   nrotmask |-> 0, intensityshift |-> 0, flipud |-> FALSE, fliplr |-> FALSE,
   donewplot |-> TRUE, rotBox |-> FormatInt(0), flipV |-> FALSE, flipH |-> FALSE]

Assign(s) ==
  /\ image' = s.image
  /\ mask' = s.mask
  /\ plotimagedata' = s.plotimagedata
  /\ plotmaskdata' = s.plotmaskdata
  /\ resolution' = s.resolution
  /\ colorScalingLow' = s.colorScalingLow
  /\ colorScalingHigh' = s.colorScalingHigh
  /\ intensitycropfactorlow' = s.intensitycropfactorlow
  /\ intensitycropfactorhigh' = s.intensitycropfactorhigh
  /\ nrotmask' = s.nrotmask
  /\ intensityshift' = s.intensityshift
  /\ flipud' = s.flipud
  /\ fliplr' = s.fliplr
  /\ donewplot' = s.donewplot
  /\ rotBox' = s.rotBox
  /\ flipV' = s.flipV
  /\ flipH' = s.flipH

\* the handler returned: the session is s, the handler did l
Return(s, l) == Assign(s) /\ running' = TRUE /\ last' = l

\* the process is gone (sys.exit, or Qt aborting on an unhandled exception)
Gone(l) == Assign(Fresh) /\ running' = FALSE /\ last' = l

\* The handler raised with the session at s.  PyQt5 either prints the
\* traceback and returns to the event loop, or (5.5 and later, no excepthook
\* installed) aborts the process.
Raise(s, l) == Return(s, l) \/ Gone(l)

\* the state after clearMaskGui(), lines 142-158
Init ==
  /\ image = None
  /\ mask = None
  /\ plotimagedata = None
  /\ plotmaskdata = None
  /\ resolution = DefaultResolution
  /\ colorScalingLow = 0
  /\ colorScalingHigh = 0
  /\ intensitycropfactorlow = <<1, 1>>
  /\ intensitycropfactorhigh = <<1, 1>>
  /\ nrotmask = 0
  /\ intensityshift = 0
  /\ flipud = FALSE
  /\ fliplr = FALSE
  /\ donewplot = TRUE
  /\ rotBox = FormatInt(0)
  /\ flipV = FALSE
  /\ flipH = FALSE
  /\ running = TRUE
  /\ last = NoLast("init")

\* on_draw, lines 319-341, on the session s: the exception it raises ("" for
\* none) and donewplot afterwards.  The image is drawn from plotimagedata and
\* the mask from plotmaskdata; either being None raises TypeError.
on_draw(s) ==
  IF s.image # None /\ s.plotimagedata = None
  THEN [exc |-> "TypeError", donewplot |-> s.donewplot]
  ELSE LET dnp == IF s.image # None THEN FALSE ELSE s.donewplot
       IN  IF s.mask # None /\ s.plotmaskdata = None
           THEN [exc |-> "TypeError", donewplot |-> dnp]
           ELSE [exc |-> "", donewplot |-> dnp]

\* the handler ends with self.on_draw()
Draw(s, l) ==
  LET d == on_draw(s)
      t == [s EXCEPT !.donewplot = d.donewplot]
  IN  IF d.exc # "" THEN Raise(t, [l EXCEPT !.exc = d.exc]) ELSE Return(t, l)

Raised(chk) == chk.ret \in {"IndexError", "ValueError"}

\* open_tif, lines 399-415, with the file chosen in the dialog
open_tif(f) ==
  /\ running
  /\ LET s1 == [Cur EXCEPT !.image = f]
         chk == checkForNegativeValues(s1.image, s1.mask, s1.nrotmask, s1.flipud,
                                       s1.fliplr, s1.intensityshift)
         l == [NoLast("open_tif") EXCEPT
                 !.check = chk.ret, !.warn = chk.warn, !.maskdata = chk.maskdata]
     IN  IF Raised(chk) THEN Raise(s1, [l EXCEPT !.exc = chk.ret])
         ELSE Draw([s1 EXCEPT
                      !.plotimagedata = imresize(f, s1.resolution, MaxDimOf(f)),
                      !.donewplot = TRUE], l)

\* open_mask, lines 420-433, with the file chosen in the dialog
open_mask(f) ==
  /\ running
  /\ LET s1 == [Cur EXCEPT !.mask = f]
         chk == checkForNegativeValues(s1.image, s1.mask, s1.nrotmask, s1.flipud,
                                       s1.fliplr, s1.intensityshift)
         l == [NoLast("open_mask") EXCEPT
                 !.check = chk.ret, !.warn = chk.warn, !.maskdata = chk.maskdata]
     IN  IF Raised(chk) THEN Raise(s1, [l EXCEPT !.exc = chk.ret])
         ELSE Draw([s1 EXCEPT
                      !.plotmaskdata = imresize(f, s1.resolution, MaxDimOf(f))], l)

\* change_mask, lines 346-365, on the session s (the widgets as the event
\* left them)
change_mask(s) ==
  LET s1 == [s EXCEPT !.fliplr = s.flipH, !.flipud = s.flipV]
      l == NoLast("change_mask")
  IN  IF ~IsIntText(s1.rotBox) THEN Raise(s1, [l EXCEPT !.exc = "ValueError"])
      ELSE LET s2 == [s1 EXCEPT !.nrotmask = int(s1.rotBox)]
               maskdata == AlignPlot(s2.mask, s2.nrotmask, s2.flipud, s2.fliplr)
           IN  IF s2.mask # None
               THEN Draw([s2 EXCEPT !.plotmaskdata =
                            imresize(maskdata, s2.resolution, MaxDimOf(s2.mask))],
                         [l EXCEPT !.maskdata = maskdata])
               ELSE Return(s2, l)

\* Return pressed in the rotation box holding the text t
rotBoxReturnPressed(t) ==
  /\ running
  /\ change_mask([Cur EXCEPT !.rotBox = t])

\* the check box "Flip mask vertically" is toggled
flipVStateChanged ==
  /\ running
  /\ change_mask([Cur EXCEPT !.flipV = ~flipV])

\* the check box "Flip mask horizontally" is toggled
flipHStateChanged ==
  /\ running
  /\ change_mask([Cur EXCEPT !.flipH = ~flipH])

\* changeIntensityShiftValue, lines 370-373, Return pressed in the shift box
\* holding the text t; float(t) raises ValueError when t is no number
changeIntensityShiftValue(t) ==
  /\ running
  /\ LET l0 == NoLast("changeIntensityShiftValue")
     IN  IF ~IsIntText(t) THEN Raise(Cur, [l0 EXCEPT !.exc = "ValueError"])
         ELSE LET s1 == [Cur EXCEPT !.intensityshift = int(t)]
                  chk == checkForNegativeValues(s1.image, s1.mask, s1.nrotmask,
                                                s1.flipud, s1.fliplr, s1.intensityshift)
                  l == [l0 EXCEPT !.check = chk.ret, !.warn = chk.warn,
                                  !.maskdata = chk.maskdata]
              IN  IF Raised(chk) THEN Raise(s1, [l EXCEPT !.exc = chk.ret])
                  ELSE Draw(s1, l)

\* changeColorScaleValue, lines 378-381, after the sliders moved to v
changeColorScaleValue(v) ==
  /\ running
  /\ v # <<colorScalingLow, colorScalingHigh>>
  /\ Draw([Cur EXCEPT !.colorScalingLow = v[1], !.colorScalingHigh = v[2],
                      !.intensitycropfactorlow = CropFactor(v[1]),
                      !.intensitycropfactorhigh = CropFactor(v[2])],
          NoLast("changeColorScaleValue"))

changeResolutionValueResetsAlignment(t) ==
  /\ running
  /\ LET s1 == [Cur EXCEPT !.resolution = int(t), !.nrotmask = 0,
                           !.flipud = FALSE, !.fliplr = FALSE]
         s2 == IF s1.image # None
               THEN [s1 EXCEPT !.plotimagedata =
                       imresize(s1.image, s1.resolution, MaxDimOf(s1.image))]
               ELSE s1
         s3 == IF s2.mask # None
               THEN [s2 EXCEPT !.plotmaskdata =
                       imresize(s2.mask, s2.resolution, MaxDimOf(s2.mask))]
               ELSE s2
     IN  Draw(s3, NoLast("changeResolutionValue"))
\* changeResolutionValue, lines 386-394, Return pressed in the resolution box
\* holding the text t (the validator lets only integers through)
changeResolutionValue(t) ==
  /\ running
  /\ LET s1 == [Cur EXCEPT !.resolution = int(t)]
         s2 == IF s1.image # None
               THEN [s1 EXCEPT !.plotimagedata =
                       imresize(s1.image, s1.resolution, MaxDimOf(s1.image))]
               ELSE s1
         s3 == IF s2.mask # None
               THEN [s2 EXCEPT !.plotmaskdata =
                       imresize(s2.mask, s2.resolution, MaxDimOf(s2.mask))]
               ELSE s2
     IN  Draw(s3, NoLast("changeResolutionValue"))

\* save_tif, lines 477-491, with a file name chosen in the dialog
save_tif ==
  /\ running
  /\ LET l == NoLast("save_tif")
     IN  IF mask = None \/ image = None
         THEN Return(Cur, [l EXCEPT !.nodata = TRUE])
         ELSE LET res == correctedData(image, mask, nrotmask, flipud, fliplr,
                                       intensityshift)
                  s1 == [Cur EXCEPT !.image = res.image]
                  l1 == [l EXCEPT !.ret = res.ret, !.data = res.data,
                                  !.maskdata = res.maskdata]
              IN  IF res.ret = "IndexError"
                  THEN Raise(s1, [l1 EXCEPT !.exc = "IndexError"])
                  ELSE Return(s1, [l1 EXCEPT !.written = res.data])

\* closeEvent, lines 496-499: sys.exit(2)
closeEvent ==
  /\ running
  /\ Gone(NoLast("closeEvent"))

Next ==
  \/ \E f \in ImageFiles : open_tif(f)
  \/ \E f \in MaskFiles : open_mask(f)
  \/ \E t \in RotTexts : rotBoxReturnPressed(t)
  \/ flipVStateChanged
  \/ flipHStateChanged
  \/ \E t \in ShiftTexts : changeIntensityShiftValue(t)
  \/ \E v \in SliderSettings : changeColorScaleValue(v)
  \/ \E t \in ResolutionTexts : changeResolutionValue(t)
  \/ save_tif
  \/ closeEvent

Spec == Init /\ [][Next]_vars

----
\* The engine specification: a session with any small image and mask loaded
\* and any alignment and shift set, on which the engine methods are called.

InitEngine ==
  /\ image \in ArraysOver(IntVals)
  /\ mask \in ArraysOver(MaskVals)
  /\ nrotmask \in RotCounts
  /\ flipud \in BOOLEAN
  /\ fliplr \in BOOLEAN
  /\ intensityshift \in Shifts
  /\ plotimagedata = imresize(image, DefaultResolution, MaxDimOf(image))
  /\ plotmaskdata = imresize(AlignPlot(mask, nrotmask, flipud, fliplr),
                             DefaultResolution, MaxDimOf(mask))
  /\ resolution = DefaultResolution
  /\ colorScalingLow = 0
  /\ colorScalingHigh = 0
  /\ intensitycropfactorlow = <<1, 1>>
  /\ intensitycropfactorhigh = <<1, 1>>
  /\ donewplot = FALSE
  /\ rotBox = FormatInt(nrotmask)
  /\ flipV = flipud
  /\ flipH = fliplr
  /\ running = TRUE
  /\ last = NoLast("init")

\* a call of self.correctedData()
CallCorrectedData ==
  /\ running
  /\ LET res == correctedData(image, mask, nrotmask, flipud, fliplr, intensityshift)
     IN  /\ image' = res.image
         /\ last' = [NoLast("correctedData") EXCEPT
                       !.ret = res.ret, !.data = res.data, !.maskdata = res.maskdata]
  /\ UNCHANGED <<mask, plotimagedata, plotmaskdata, resolution, colorScalingLow,
                 colorScalingHigh, intensitycropfactorlow, intensitycropfactorhigh,
                 nrotmask, intensityshift, flipud, fliplr, donewplot, rotBox,
                 flipV, flipH, running>>

CallCheckApplyShift ==
  /\ running
  /\ LET res == checkForNegativeValues(image, mask, nrotmask, flipud, fliplr,
                                       intensityshift)
     IN  /\ last' = [NoLast("checkForNegativeValues") EXCEPT
                       !.check = res.ret, !.warn = res.warn, !.maskdata = res.maskdata]
         /\ intensityshift' = IF res.warn # None THEN res.warn[1] ELSE intensityshift
  /\ UNCHANGED <<image, mask, plotimagedata, plotmaskdata, resolution,
                 colorScalingLow, colorScalingHigh, intensitycropfactorlow,
                 intensitycropfactorhigh, nrotmask, flipud, fliplr,
                 donewplot, rotBox, flipV, flipH, running>>
\* a call of self.checkForNegativeValues()
CallCheckForNegativeValues ==
  /\ running
  /\ LET res == checkForNegativeValues(image, mask, nrotmask, flipud, fliplr,
                                       intensityshift)
     IN  last' = [NoLast("checkForNegativeValues") EXCEPT
                    !.check = res.ret, !.warn = res.warn, !.maskdata = res.maskdata]
  /\ UNCHANGED <<image, mask, plotimagedata, plotmaskdata, resolution,
                 colorScalingLow, colorScalingHigh, intensitycropfactorlow,
                 intensitycropfactorhigh, nrotmask, intensityshift, flipud, fliplr,
                 donewplot, rotBox, flipV, flipH, running>>

\* Return pressed in the rotation box with its text unchanged: change_mask
CallChangeMask ==
  /\ running
  /\ change_mask(Cur)

NextEngine == CallCorrectedData \/ CallCheckForNegativeValues \/ CallChangeMask

SpecEngine == InitEngine /\ [][NextEngine]_vars

----
\* Reference definitions used by the properties: the alignment the
\* specification describes, written on pixel coordinates.

\* one quarter turn counter-clockwise: the element at row r, column c of an
\* R x C array ends at row C + 1 - c, column r (rows and columns from 1)
RefQuarterTurn(m) ==
  [i \in 1..Cols(m) |-> [j \in 1..Rows(m) |-> m[j][Cols(m) + 1 - i]]]

RefTranspose(m) == [i \in 1..Cols(m) |-> [j \in 1..Rows(m) |-> m[j][i]]]
RefReverseRows(m) == [i \in 1..Rows(m) |-> m[Rows(m) + 1 - i]]
RefFlipV(m) == [i \in 1..Rows(m) |-> [j \in 1..Cols(m) |-> m[Rows(m) + 1 - i][j]]]
RefFlipH(m) == [i \in 1..Rows(m) |-> [j \in 1..Cols(m) |-> m[i][Cols(m) + 1 - j]]]

RECURSIVE RefTurns(_, _)
\* n >= 0 quarter turns
RefTurns(m, n) == IF n <= 0 THEN m ELSE RefQuarterTurn(RefTurns(m, n - 1))

RECURSIVE RefTransposeReverse(_, _)
\* n >= 0 applications of: transpose, then reverse the order of the rows
RefTransposeReverse(m, n) ==
  IF n <= 0 THEN m ELSE RefReverseRows(RefTranspose(RefTransposeReverse(m, n - 1)))

\* rotation, then vertical flip, then horizontal flip
RefAlign(m, k, fv, fh) ==
  LET a == RefTurns(m, k % 4)
      b == IF fv THEN RefFlipV(a) ELSE a
  IN  IF fh THEN RefFlipH(b) ELSE b

Pixels(a) == (1..Rows(a)) \X (1..Cols(a))

\* the aligned mask of the current session, and whether it fits the image
RefAligned == RefAlign(mask, nrotmask, flipud, fliplr)
Loaded == image # None /\ mask # None
Fits == Loaded /\ Shape(RefAligned) = Shape(image)
ValidRot == nrotmask \in 0..3

\* the shifted intensities of the pixels the aligned mask does not mark with 1
RefUnmaskedShifted ==
  {image[p[1]][p[2]] + intensityshift : p \in {q \in Pixels(image) : RefAligned[q[1]][q[2]] # 1}}
RefUnmaskedRaw ==
  {image[p[1]][p[2]] : p \in {q \in Pixels(image) : RefAligned[q[1]][q[2]] # 1}}

\* fixed arrays whose pixels all differ, and the alignments of the claims
Labelled == {<<<<1, 2>>, <<3, 4>>>>, <<<<1, 2, 3>>, <<4, 5, 6>>>>,
             <<<<1, 2>>, <<3, 4>>, <<5, 6>>>>}
Alignments == (0..3) \X BOOLEAN \X BOOLEAN

----
\* Properties.

C1_ScenarioA ==
  correctedData(<<<<5, 5>>, <<5, 5>>>>, <<<<1, 0>>, <<0, 1>>>>, 0, FALSE, FALSE, 0).data
    = <<<<-1, 5>>, <<5, -1>>>>

\* C1: when the aligned mask has the dimensions of the image and the rotation
\* count is 0, 1, 2 or 3, correctedData returns an array of the image's
\* dimensions holding -1 where the aligned mask is 1 and intensity + shift
\* elsewhere; scenario A gives [[-1,5],[5,-1]].
C1_CorrectedPixels ==
  /\ (last.op = "correctedData" /\ ValidRot /\ Fits) =>
        /\ last.ret = "array"
        /\ Shape(last.data) = Shape(image)
        /\ \A p \in Pixels(image) :
              last.data[p[1]][p[2]] =
                IF RefAligned[p[1]][p[2]] = 1 THEN -1
                ELSE image[p[1]][p[2]] + intensityshift
  /\ C1_ScenarioA

C1_Witness ==
  /\ last.op = "correctedData" /\ last.ret = "array"
  /\ nrotmask = 1 /\ flipud /\ ~fliplr /\ intensityshift = 1
  /\ Rows(image) # Cols(image)
  /\ \E p \in Pixels(image) : RefAligned[p[1]][p[2]] = 1
  /\ \E p \in Pixels(image) : RefAligned[p[1]][p[2]] = 2

C2_OnLabelled ==
  \A m \in Labelled : \A a \in Alignments :
     /\ AlignExport(m, a[1], a[2], a[3]) = RefAlign(m, a[1], a[2], a[3])
     /\ AlignCheck(m, a[1], a[2], a[3]) = RefAlign(m, a[1], a[2], a[3])
     /\ AlignPlot(m, a[1], a[2], a[3]) = RefAlign(m, a[1], a[2], a[3])

\* C2: for rotation counts 0..3 the aligned mask computed by correctedData,
\* by checkForNegativeValues and by change_mask is the rotation, followed by
\* the vertical flip if set, followed by the horizontal flip if set.
C2_FixedOrder ==
  /\ (last.op = "correctedData" /\ ValidRot) => last.maskdata = RefAligned
  /\ (last.op = "checkForNegativeValues" /\ ValidRot) => last.maskdata = RefAligned
  /\ (last.op = "change_mask" /\ ValidRot) =>
        /\ last.maskdata = RefAligned
        /\ plotmaskdata[1] = RefAligned
  /\ C2_OnLabelled

C2_Witness ==
  /\ last.op = "change_mask"
  /\ mask = <<<<1, 0>>>>
  /\ nrotmask = 1 /\ flipud /\ ~fliplr
  /\ plotmaskdata[1] = <<<<1>>, <<0>>>>

C3_OnLabelled ==
  /\ \A m \in Labelled : \A k \in 0..3 :
        /\ numpy_rot90(m, k) = RefTransposeReverse(m, k)
        /\ numpy_rot90(m, k) = RefTurns(m, k)
  /\ numpy_rot90(<<<<1, 2>>, <<3, 4>>>>, 1) = <<<<2, 4>>, <<1, 3>>>>

\* C3: the rotation by k quarter turns (k in 0..3) is k applications of
\* "transpose, then reverse the rows"; one turn takes the element at (r, c)
\* of an R x C mask to (C-1-c, r); [[1,2],[3,4]] with k = 1 is [[2,4],[1,3]].
C3_Rotation ==
  /\ LET t1 == RefReverseRows(RefTranspose(mask))
         t2 == RefReverseRows(RefTranspose(t1))
         t3 == RefReverseRows(RefTranspose(t2))
     IN  /\ numpy_rot90(mask, 0) = mask
         /\ numpy_rot90(mask, 1) = t1
         /\ numpy_rot90(mask, 2) = t2
         /\ numpy_rot90(mask, 3) = t3
         /\ Shape(t1) = <<Cols(mask), Rows(mask)>>
         /\ \A p \in Pixels(mask) : t1[Cols(mask) + 1 - p[2]][p[1]] = mask[p[1]][p[2]]
  /\ (last.op = "correctedData" /\ ValidRot /\ ~flipud /\ ~fliplr) =>
        last.maskdata = RefTransposeReverse(mask, nrotmask)
  /\ C3_OnLabelled

C3_Witness ==
  /\ last.op = "correctedData" /\ ~flipud /\ ~fliplr /\ nrotmask = 1
  /\ mask = <<<<1, 2>>>>
  /\ last.maskdata = <<<<2>>, <<1>>>>

C4_ScenarioD ==
  LET tall == <<<<7, -1>>, <<8, 9>>, <<4, 6>>>>
      wide == <<<<1, 0, 0>>, <<0, 0, 0>>>>
  IN  /\ correctedData(tall, wide, 0, FALSE, FALSE, 0).ret = "IndexError"
      /\ correctedData(tall, wide, 0, FALSE, FALSE, 0).data = None
      /\ correctedData(tall, wide, 1, FALSE, FALSE, 0).ret = "array"

\* C4: when the aligned mask and the image differ in dimensions, correctedData
\* raises IndexError and returns no array, and save_tif writes no file; a file
\* is written only when the dimensions match, and then it has the image's
\* dimensions.  A 3x2 image with a 2x3 mask fails with k = 0, succeeds with k = 1.
C4_MismatchFails ==
  /\ (running /\ last.op = "save_tif" /\ Loaded /\ ~Fits) =>
        (last.exc = "IndexError" /\ last.ret = "IndexError"
           /\ last.written = None /\ last.data = None)
  /\ (running /\ last.op = "save_tif" /\ Fits) =>
        (last.exc = "" /\ last.written # None /\ Shape(last.written) = Shape(image))
  /\ (~running /\ last.op = "save_tif") =>
        (last.exc = "IndexError" /\ last.written = None)
  /\ C4_ScenarioD

C4_Witness ==
  /\ running /\ last.op = "save_tif" /\ last.exc = "IndexError" /\ last.written = None
  /\ Shape(image) = <<3, 2>> /\ Shape(mask) = <<2, 3>> /\ nrotmask = 0

C5_ScenarioB ==
  checkForNegativeValues(<<<<-3, 10>>, <<10, 10>>>>, <<<<0, 0>>, <<0, 0>>>>,
                         0, FALSE, FALSE, 0).warn = <<3>>

\* C5: when the least shifted intensity over the pixels whose aligned mask
\* value is not 1 is negative, checkForNegativeValues shows the recommended
\* value intensityshift - that minimum; when it is >= 0 it shows nothing.
\* Scenario B recommends 3.
C5_Recommended ==
  /\ (last.op = "checkForNegativeValues" /\ ValidRot /\ Fits) =>
        LET U == RefUnmaskedShifted
        IN  U # {} =>
              /\ last.check = "None"
              /\ Min(U) < 0 => last.warn = <<intensityshift - Min(U)>>
              /\ Min(U) >= 0 => last.warn = None
  /\ C5_ScenarioB

C5_Witness ==
  /\ last.op = "checkForNegativeValues" /\ Fits
  /\ nrotmask = 1 /\ fliplr /\ intensityshift = 1
  /\ last.warn = <<2>>
  /\ \E p \in Pixels(image) : RefAligned[p[1]][p[2]] = 1 /\ image[p[1]][p[2]] = -2
  /\ \E p \in Pixels(image) : RefAligned[p[1]][p[2]] = 2 /\ image[p[1]][p[2]] = -2

\* C6 (as claimed): when the aligned mask is 1 at every pixel,
\* checkForNegativeValues completes and reports no issue.
C6_FullyMaskedNoIssue ==
  (last.op = "checkForNegativeValues" /\ ValidRot /\ Fits
     /\ \A p \in Pixels(image) : RefAligned[p[1]][p[2]] = 1) =>
        (last.check = "None" /\ last.warn = None)

\* C7 (as claimed): the recommended value is the smallest shift that, added
\* to the current intensityshift, makes every unmasked pixel non-negative.
C7_SmallestAdditional ==
  (last.op = "checkForNegativeValues" /\ ValidRot /\ Fits /\ last.warn # None) =>
     last.warn[1] = 0 - Min(RefUnmaskedShifted)

\* C7 (amended): the recommended value is the smallest intensityshift itself
\* (replacing the current one) that makes every unmasked pixel non-negative:
\* minus the least unmasked raw intensity; it is the additional shift when
\* the current intensityshift is 0.
C7_SmallestTotal ==
  (last.op = "checkForNegativeValues" /\ ValidRot /\ Fits /\ last.warn # None) =>
     LET r == last.warn[1]
         R == RefUnmaskedRaw
     IN  /\ \A v \in R : v + r >= 0
         /\ \E v \in R : v + r = 0
         /\ intensityshift = 0 => r = 0 - Min(RefUnmaskedShifted)

C7_Witness ==
  /\ last.op = "checkForNegativeValues" /\ Fits /\ ValidRot
  /\ intensityshift = 1
  /\ last.warn = <<2>>
  /\ Min(RefUnmaskedShifted) = -1

\* C8: with the image or the mask not loaded, correctedData and
\* checkForNegativeValues return False without computing anything, a handler
\* that runs the check shows no warning, and save_tif shows "Nothing to save",
\* writes no file and leaves the session as it was.
C8_MissingInput ==
  /\ [](~Loaded =>
          /\ correctedData(image, mask, nrotmask, flipud, fliplr, intensityshift)
               = [ret |-> "False", data |-> None, image |-> image, maskdata |-> None]
          /\ checkForNegativeValues(image, mask, nrotmask, flipud, fliplr,
                                    intensityshift)
               = [ret |-> "False", warn |-> None, maskdata |-> None])
  /\ []((running /\ ~Loaded /\ last.check # "") =>
          (last.check = "False" /\ last.warn = None /\ last.maskdata = None))
  /\ []((running /\ ~Loaded /\ last.op = "save_tif") =>
          last = [NoLast("save_tif") EXCEPT !.nodata = TRUE])
  /\ [][(last'.op = "save_tif" /\ ~Loaded) =>
          /\ running'
          /\ UNCHANGED <<image, mask, plotimagedata, plotmaskdata, resolution,
                         colorScalingLow, colorScalingHigh, intensitycropfactorlow,
                         intensitycropfactorhigh, nrotmask, intensityshift, flipud,
                         fliplr, donewplot, rotBox, flipV, flipH>>]_vars

C8_Witness ==
  /\ last.op = "save_tif" /\ last.nodata /\ last.written = None
  /\ image # None /\ mask = None /\ nrotmask = 1 /\ intensityshift = 1

\* C9: correctedData does not change the loaded image: save_tif leaves
\* self.image.data as it was, and the stored image is always the content of
\* the file it was loaded from.
C9_ImageNotMutated ==
  /\ [][(last'.op = "save_tif" /\ running') => image' = image]_vars
  /\ [](image = None \/ image \in ImageFiles)

C9_Witness ==
  /\ last.op = "save_tif" /\ last.written # None
  /\ intensityshift = 1 /\ image \in ImageFiles
  /\ \A p \in Pixels(image) : last.written[p[1]][p[2]] # image[p[1]][p[2]]

C10_OnLabelled ==
  \A m \in Labelled : \A k \in 0..3 :
     AlignExport(AlignExport(m, k, FALSE, FALSE), (4 - k) % 4, FALSE, FALSE) = m

\* C10: for every k in 0..3, rotating the mask by k quarter turns and the
\* result by (4 - k) mod 4 quarter turns, with no flips, gives the mask back.
C10_RotationInverse ==
  /\ \A k \in 0..3 :
        AlignExport(AlignExport(mask, k, FALSE, FALSE), (4 - k) % 4, FALSE, FALSE) = mask
  /\ (last.op = "correctedData" /\ ValidRot /\ ~flipud /\ ~fliplr) =>
        AlignExport(last.maskdata, (4 - nrotmask) % 4, FALSE, FALSE) = mask
  /\ C10_OnLabelled

C10_Witness ==
  /\ last.op = "correctedData" /\ nrotmask = 3 /\ ~flipud /\ ~fliplr
  /\ mask = <<<<1, 2>>>>
  /\ last.maskdata = <<<<1>>, <<2>>>>

C11_OnLabelled ==
  \A m \in Labelled :
     /\ AlignExport(m, 0, FALSE, FALSE) = m
     /\ AlignCheck(m, 0, FALSE, FALSE) = m
     /\ AlignPlot(m, 0, FALSE, FALSE) = m

\* C11: with rotation count 0 and both flips off, the aligned mask computed
\* by correctedData, by checkForNegativeValues and by change_mask is the raw
\* mask, pixel for pixel.
C11_Identity ==
  /\ (last.op \in {"correctedData", "checkForNegativeValues", "change_mask"}
        /\ nrotmask = 0 /\ ~flipud /\ ~fliplr) =>
        /\ Shape(last.maskdata) = Shape(mask)
        /\ \A p \in Pixels(mask) : last.maskdata[p[1]][p[2]] = mask[p[1]][p[2]]
  /\ (last.op = "change_mask" /\ nrotmask = 0 /\ ~flipud /\ ~fliplr) =>
        plotmaskdata[1] = mask
  /\ C11_OnLabelled

C11_Witness ==
  /\ last.op = "correctedData" /\ nrotmask = 0 /\ ~flipud /\ ~fliplr
  /\ mask = <<<<1, 2>>>>
  /\ last.maskdata = <<<<1, 2>>>>

C12_OnLabelled ==
  \A m \in Labelled :
     /\ numpy_flipud(numpy_flipud(m)) = m
     /\ numpy_fliplr(numpy_fliplr(m)) = m
     /\ numpy_flipud(m) # m
     /\ numpy_fliplr(m) # m

\* C12: flipping a mask vertically twice gives the mask back, and flipping it
\* horizontally twice gives the mask back.
C12_FlipTwice ==
  /\ numpy_flipud(numpy_flipud(mask)) = mask
  /\ numpy_fliplr(numpy_fliplr(mask)) = mask
  /\ (last.op = "correctedData" /\ nrotmask = 0 /\ flipud /\ ~fliplr) =>
        AlignExport(last.maskdata, 0, TRUE, FALSE) = mask
  /\ (last.op = "correctedData" /\ nrotmask = 0 /\ ~flipud /\ fliplr) =>
        AlignExport(last.maskdata, 0, FALSE, TRUE) = mask
  /\ C12_OnLabelled

C12_Witness ==
  /\ last.op = "correctedData" /\ nrotmask = 0 /\ flipud /\ ~fliplr
  /\ mask = <<<<1>>, <<2>>>>
  /\ last.maskdata = <<<<2>>, <<1>>>>

C13_OnLabelled ==
  \A m \in Labelled : \A a \in Alignments :
     \A al \in {AlignExport(m, a[1], a[2], a[3]), AlignCheck(m, a[1], a[2], a[3]),
                AlignPlot(m, a[1], a[2], a[3])} :
        Shape(al) = IF a[1] \in {1, 3} THEN <<Cols(m), Rows(m)>> ELSE <<Rows(m), Cols(m)>>

\* C13: the aligned mask of an R x C raw mask has C rows and R columns when
\* the rotation count is 1 or 3 and R rows and C columns when it is 0 or 2,
\* whatever the flips are.
C13_Dimensions ==
  /\ (last.op \in {"correctedData", "checkForNegativeValues", "change_mask"}
        /\ nrotmask \in {1, 3}) =>
        (Rows(last.maskdata) = Cols(mask) /\ Cols(last.maskdata) = Rows(mask)
           /\ \A r \in 1..Rows(last.maskdata) : Len(last.maskdata[r]) = Rows(mask))
  /\ (last.op \in {"correctedData", "checkForNegativeValues", "change_mask"}
        /\ nrotmask \in {0, 2}) =>
        (Rows(last.maskdata) = Rows(mask) /\ Cols(last.maskdata) = Cols(mask)
           /\ \A r \in 1..Rows(last.maskdata) : Len(last.maskdata[r]) = Cols(mask))
  /\ C13_OnLabelled

C13_Witness ==
  /\ last.op = "correctedData" /\ nrotmask = 3 /\ flipud /\ fliplr
  /\ Shape(mask) = <<1, 2>>
  /\ Shape(last.maskdata) = <<2, 1>>

C14_ScenarioTwice ==
  LET img == <<<<5, 5>>, <<5, 5>>>>
      msk == <<<<1, 0>>, <<0, 1>>>>
      once == correctedData(img, msk, 0, FALSE, FALSE, 3).data
  IN  /\ once = <<<<-1, 8>>, <<8, -1>>>>
      /\ correctedData(once, msk, 0, FALSE, FALSE, 3).data = <<<<-1, 11>>, <<11, -1>>>>

\* C14: running correctedData again on its own output, with the same aligned
\* mask and the same shift, gives -1 at every masked pixel and the original
\* intensity plus twice the shift at every unmasked pixel; the second result
\* equals the first exactly when the shift is 0 or no pixel is unmasked.
C14_NotIdempotent ==
  /\ (last.op = "correctedData" /\ last.ret = "array") =>
        LET again == correctedData(last.data, mask, nrotmask, flipud, fliplr,
                                   intensityshift)
            masked == {p \in Pixels(image) : last.maskdata[p[1]][p[2]] = 1}
        IN  /\ again.ret = "array"
            /\ again.maskdata = last.maskdata
            /\ \A p \in Pixels(image) :
                  again.data[p[1]][p[2]] =
                    IF p \in masked THEN -1
                    ELSE image[p[1]][p[2]] + 2 * intensityshift
            /\ (again.data = last.data)
                 <=> (intensityshift = 0 \/ masked = Pixels(image))
  /\ C14_ScenarioTwice

C14_Witness ==
  /\ last.op = "correctedData" /\ last.ret = "array" /\ intensityshift = 1
  /\ \E p \in Pixels(image) : last.maskdata[p[1]][p[2]] = 1
  /\ \E p \in Pixels(image) : last.maskdata[p[1]][p[2]] # 1
  /\ correctedData(last.data, mask, nrotmask, flipud, fliplr, intensityshift).data
       # last.data

\* the corrected array the specification describes for the current session:
\* -1 where the aligned mask is 1, intensity + shift elsewhere; None when the
\* aligned mask does not have the dimensions of the image
RefCorrected ==
  IF Shape(RefAligned) # Shape(image) THEN None
  ELSE [r \in 1..Rows(image) |-> [c \in 1..Cols(image) |->
          IF RefAligned[r][c] = 1 THEN -1 ELSE image[r][c] + intensityshift]]

\* C15: with image and mask loaded and of matching dimensions, save_tif writes
\* exactly the corrected array, whether or not unmasked negative intensities
\* exist; a handler that has just shown the negative-intensity warning leaves
\* a session whose export is that same array.
C15_AdvisoryNeverBlocks ==
  /\ (running /\ last.op = "save_tif" /\ Fits) =>
        (last.exc = "" /\ last.ret = "array" /\ last.written = RefCorrected)
  /\ (running /\ last.warn # None /\ Fits) =>
        LET res == correctedData(image, mask, nrotmask, flipud, fliplr, intensityshift)
        IN  res.ret = "array" /\ res.data = RefCorrected

C15_Witness ==
  /\ running /\ last.op = "save_tif" /\ Fits
  /\ last.written = RefCorrected
  /\ \E v \in RefUnmaskedShifted : v < 0
  /\ \E p \in Pixels(image) : RefAligned[p[1]][p[2]] # 1 /\ last.written[p[1]][p[2]] < 0

\* C16: a call of checkForNegativeValues, whatever it reports or raises,
\* leaves the image, the mask, the rotation count, both flip flags and the
\* intensity shift as they were.
C16_CheckChangesNothing ==
  [][(last'.op = "checkForNegativeValues") =>
        UNCHANGED <<image, mask, nrotmask, flipud, fliplr, intensityshift>>]_vars

C16_Witness ==
  /\ last.op = "checkForNegativeValues" /\ last.warn = <<2>>
  /\ intensityshift = 0 /\ nrotmask = 1 /\ flipud

C17_ScenarioD ==
  LET tall == <<<<7, -1>>, <<8, 9>>, <<4, 6>>>>
      wide == <<<<1, 0, 0>>, <<0, 0, 0>>>>
  IN  /\ checkForNegativeValues(tall, wide, 0, FALSE, FALSE, 0).ret = "IndexError"
      /\ checkForNegativeValues(tall, wide, 0, FALSE, FALSE, 0).warn = None
      /\ checkForNegativeValues(tall, wide, 1, FALSE, FALSE, 0).ret = "None"

\* C17: for rotation counts 0..3, when the aligned mask and the image differ
\* in dimensions, a handler that runs checkForNegativeValues ends with
\* IndexError and shows no recommended shift; opening a mask that needs a
\* quarter turn to match the image, with rotation count 0, ends that way.
C17_CheckMismatchFails ==
  /\ (running /\ last.check # "" /\ Loaded /\ ValidRot /\ ~Fits) =>
        (last.check = "IndexError" /\ last.exc = "IndexError" /\ last.warn = None)
  /\ (running /\ last.op = "open_mask" /\ Loaded /\ nrotmask = 0
        /\ Rows(mask) # Cols(mask) /\ Shape(mask) = <<Cols(image), Rows(image)>>) =>
        last.exc = "IndexError"
  /\ C17_ScenarioD

C17_Witness ==
  /\ running /\ last.op = "open_mask" /\ last.exc = "IndexError"
  /\ last.check = "IndexError"
  /\ nrotmask = 0 /\ Shape(image) = <<3, 2>> /\ Shape(mask) = <<2, 3>>

\* C18 (as claimed): after any sequence of user events the stored rotation
\* count nrotmask is one of 0, 1, 2, 3.
C18_RotationInRange == nrotmask \in {0, 1, 2, 3}

C19_OnCodes ==
  LET img == <<<<-5, -6>>, <<-7, -8>>>>
      codes == <<<<0, 1>>, <<2, 255>>>>
  IN  /\ correctedData(img, codes, 0, FALSE, FALSE, 0).data = <<<<-5, -1>>, <<-7, -8>>>>
      /\ Unmasked(img, AlignCheck(codes, 0, FALSE, FALSE)) = {-5, -7, -8}
      /\ checkForNegativeValues(img, codes, 0, FALSE, FALSE, 0).warn = <<8>>

\* C19: for rotation counts 0..3 and one alignment, every pixel is either
\* examined by checkForNegativeValues (aligned mask value other than 1, such
\* as 0, 2 or 255) and keeps intensity + shift in correctedData, or is
\* overwritten with -1 by correctedData (aligned mask value 1) and is not
\* examined; no pixel is both and none is neither.
C19_Partition ==
  /\ (last.op = "correctedData" /\ ValidRot /\ Fits) =>
        LET chk == checkForNegativeValues(image, mask, nrotmask, flipud, fliplr,
                                          intensityshift)
            examined == {p \in Pixels(image) : chk.maskdata[p[1]][p[2]] # 1}
            overwritten == {p \in Pixels(image) : last.maskdata[p[1]][p[2]] = 1}
        IN  /\ examined \cap overwritten = {}
            /\ examined \cup overwritten = Pixels(image)
            /\ \A p \in examined :
                  last.data[p[1]][p[2]] = image[p[1]][p[2]] + intensityshift
            /\ \A p \in overwritten : last.data[p[1]][p[2]] = -1
  /\ (last.op = "checkForNegativeValues" /\ ValidRot /\ Fits) =>
        LET cor == correctedData(image, mask, nrotmask, flipud, fliplr, intensityshift)
            kept == {cor.data[p[1]][p[2]] :
                       p \in {q \in Pixels(image) : cor.maskdata[q[1]][q[2]] # 1}}
        IN  /\ (kept = {}) <=> (last.check = "ValueError")
            /\ kept # {} => (last.warn # None <=> Min(kept) < 0)
  /\ C19_OnCodes

C19_Witness ==
  /\ last.op = "correctedData" /\ ValidRot /\ Fits /\ nrotmask = 1
  /\ \E p \in Pixels(image) : last.maskdata[p[1]][p[2]] = 1
  /\ \E p \in Pixels(image) :
        last.maskdata[p[1]][p[2]] = 2 /\ last.data[p[1]][p[2]] = -2

\* C20: the array correctedData returns in save_tif is a function of the
\* image, the raw mask, the rotation count, the two flips and the shift alone,
\* whatever events led to the session; two calls in a row return the same.
C20_PureFunction ==
  /\ []((running /\ last.op = "save_tif" /\ Loaded) =>
          /\ last.data = RefCorrected
          /\ last.ret = IF RefCorrected = None THEN "IndexError" ELSE "array")
  /\ [][(last.op = "save_tif" /\ last'.op = "save_tif" /\ running /\ running') =>
          (last'.data = last.data /\ last'.ret = last.ret)]_vars

C20_Witness ==
  /\ running /\ last.op = "save_tif" /\ last.ret = "array"
  /\ nrotmask = 1 /\ flipud /\ intensityshift = 1
  /\ plotmaskdata # None /\ plotmaskdata[1] = mask
  /\ RefAligned # mask
  /\ resolution = OtherResolution /\ colorScalingLow = 10

\* C21 (as claimed): for every rotation count change_mask can store, the
\* aligned mask used by checkForNegativeValues in a handler is the aligned
\* mask correctedData uses for the same session, so the pixels checked are the
\* complement of the pixels the export overwrites.
C21_SameAlignedMask ==
  (running /\ Loaded /\ last.check \in {"None", "IndexError", "ValueError"}) =>
     LET exported == correctedData(image, mask, nrotmask, flipud, fliplr,
                                   intensityshift).maskdata
     IN  /\ Shape(last.maskdata) = Shape(exported)
         /\ \A p \in Pixels(exported) :
               (last.maskdata[p[1]][p[2]] # 1) <=> ~(exported[p[1]][p[2]] = 1)

\* C22 (as claimed): with image and mask loaded (and a rotation count in
\* 0..3), a handler that changes an input of the negative-value check
\* (open_tif, open_mask, a new intensity shift, a new rotation count or flip)
\* has run checkForNegativeValues on the new values when it returns.
C22_EveryChangeRechecks ==
  [][(/\ running' /\ Loaded' /\ ValidRot'
      /\ \/ last'.op \in {"open_tif", "open_mask"}
         \/ last'.op = "change_mask"
              /\ <<nrotmask, flipud, fliplr>>' # <<nrotmask, flipud, fliplr>>
         \/ last'.op = "changeIntensityShiftValue"
              /\ intensityshift' # intensityshift) =>
        LET chk == checkForNegativeValues(image', mask', nrotmask', flipud', fliplr',
                                          intensityshift')
        IN  last'.check = chk.ret /\ last'.warn = chk.warn]_vars

\* C23 (as claimed): whenever a mask is loaded, an overlay exists and the
\* rotation count is in 0..3, the overlay plotmaskdata is made from the mask
\* aligned with the current rotation count and flips, the alignment
\* correctedData applies.
C23_OverlayAligned ==
  (running /\ mask # None /\ plotmaskdata # None /\ ValidRot) =>
     plotmaskdata[1] = AlignExport(mask, nrotmask, flipud, fliplr)

\* C24 (as claimed): when the check a handler ran reports no issue for the
\* current session and the export succeeds, a pixel of correctedData is -1 if
\* and only if the aligned mask is 1 at that pixel.
C24_SentinelUnambiguous ==
  (running /\ Loaded /\ last.check = "None" /\ last.warn = None) =>
     LET cor == correctedData(image, mask, nrotmask, flipud, fliplr, intensityshift)
     IN  cor.ret = "array" =>
           \A p \in Pixels(image) :
              (cor.data[p[1]][p[2]] = -1) <=> (cor.maskdata[p[1]][p[2]] = 1)

\* C26 (as claimed): a handler that fails on its text leaves the settings as
\* they were: change_mask with a rotation text that is no integer keeps the
\* rotation count and both flips, changeIntensityShiftValue with a text that
\* is no number keeps the intensity shift.
C26_FailedHandlerKeepsSettings ==
  [][/\ (last'.op = "change_mask" /\ last'.exc = "ValueError" /\ running') =>
          (nrotmask' = nrotmask /\ flipud' = flipud /\ fliplr' = fliplr)
     /\ (last'.op = "changeIntensityShiftValue" /\ last'.exc = "ValueError"
           /\ last'.check = "" /\ running') =>
          intensityshift' = intensityshift]_vars

\* C27 (as claimed): whenever a handler starts, a loaded image has its plot
\* data and a loaded mask has its overlay data, so on_draw never meets an
\* unset one.
C27_PlotDataSet ==
  running =>
     /\ image # None => plotimagedata # None
     /\ mask # None => plotmaskdata # None

C25_ScenarioShifts ==
  LET img == <<<<-3, 10>>, <<10, 10>>>>
      msk == <<<<0, 0>>, <<0, 0>>>>
  IN  /\ \A sh \in 0..2 :
            checkForNegativeValues(img, msk, 0, FALSE, FALSE, sh).warn = <<3>>
      /\ checkForNegativeValues(img, msk, 0, FALSE, FALSE, 3).warn = None
      /\ checkForNegativeValues(img, msk, 0, FALSE, FALSE, 3).ret = "None"

\* C25: when a handler's check has shown the recommended value r and the user
\* then enters r as the intensity shift (image, mask and alignment unchanged),
\* the check run by changeIntensityShiftValue reports no issue and the least
\* unmasked shifted intensity is exactly 0; r is minus the least unmasked raw
\* intensity, whatever shift was in force.
C25_ApplyRecommended ==
  /\ [][(/\ running /\ last.warn # None
         /\ last'.op = "changeIntensityShiftValue" /\ last'.check # "" /\ running'
         /\ intensityshift' = last.warn[1]) =>
          /\ last'.check = "None"
          /\ last'.warn = None
          /\ Min({image'[p[1]][p[2]] + intensityshift' :
                    p \in {q \in Pixels(image') : last'.maskdata[q[1]][q[2]] # 1}}) = 0]_vars
  /\ []((running /\ last.warn # None) =>
          last.warn[1] = 0 - Min({image[p[1]][p[2]] :
                    p \in {q \in Pixels(image) : last.maskdata[q[1]][q[2]] # 1}}))
  /\ [](C25_ScenarioShifts)

C25_Witness ==
  /\ running /\ Loaded /\ last.op = "changeIntensityShiftValue"
  /\ intensityshift = 1 /\ nrotmask = 1
  /\ last.check = "None" /\ last.warn = None
  /\ Min({image[p[1]][p[2]] + intensityshift :
            p \in {q \in Pixels(image) : last.maskdata[q[1]][q[2]] # 1}}) = 0

\* C28: changeResolutionValue and changeColorScaleValue leave the image, the
\* mask, the rotation count, both flips and the intensity shift as they were,
\* and the array correctedData returns is the same before and after them:
\* the export does not depend on the plot resolution, the colour-scale
\* factors or the redraw flag.
C28_DisplaySettingsApart ==
  [][(last'.op \in {"changeResolutionValue", "changeColorScaleValue"} /\ running') =>
        /\ UNCHANGED <<image, mask, nrotmask, flipud, fliplr, intensityshift>>
        /\ correctedData(image', mask', nrotmask', flipud', fliplr', intensityshift')
             = correctedData(image, mask, nrotmask, flipud, fliplr, intensityshift)]_vars

C28_Witness ==
  /\ running /\ Loaded /\ last.op = "changeResolutionValue" /\ last.exc = ""
  /\ resolution = OtherResolution /\ colorScalingLow = 10 /\ ~donewplot
  /\ nrotmask = 1 /\ flipud /\ intensityshift = 1
  /\ correctedData(image, mask, nrotmask, flipud, fliplr, intensityshift).ret = "array"

C29_OnLabelled ==
  \A m \in Labelled :
     /\ \A a \in Alignments :
           /\ AlignExport(m, a[1], a[2], a[3])
                = AlignExport(m, (a[1] + 2) % 4, ~a[2], ~a[3])
           /\ AlignPlot(m, a[1], a[2], a[3])
                = AlignPlot(m, (a[1] + 2) % 4, ~a[2], ~a[3])
     /\ Cardinality({AlignExport(m, a[1], a[2], a[3]) : a \in Alignments}) = 8
     /\ AlignExport(m, 2, FALSE, FALSE) = AlignExport(m, 0, TRUE, TRUE)
     /\ numpy_flipud(numpy_fliplr(m)) = numpy_fliplr(numpy_flipud(m))

\* C29: for every mask, k in 0..3 and flips (fv, fh), aligning with
\* (k, fv, fh) gives the array of aligning with ((k+2) mod 4, not fv, not fh),
\* so the 16 settings give at most 8 aligned masks; two quarter turns equal
\* the two flips together, and the two flips commute.
C29_EightAlignments ==
  /\ \A a \in Alignments :
        AlignExport(mask, a[1], a[2], a[3])
          = AlignExport(mask, (a[1] + 2) % 4, ~a[2], ~a[3])
  /\ Cardinality({AlignExport(mask, a[1], a[2], a[3]) : a \in Alignments}) <= 8
  /\ AlignExport(mask, 2, FALSE, FALSE) = RefFlipH(RefFlipV(mask))
  /\ numpy_flipud(numpy_fliplr(mask)) = numpy_fliplr(numpy_flipud(mask))
  /\ (last.op = "correctedData" /\ ValidRot) =>
        last.maskdata = AlignExport(mask, (nrotmask + 2) % 4, ~flipud, ~fliplr)
  /\ (last.op = "change_mask" /\ ValidRot) =>
        plotmaskdata[1] = AlignPlot(mask, (nrotmask + 2) % 4, ~flipud, ~fliplr)
  /\ C29_OnLabelled

C29_Witness ==
  /\ last.op = "correctedData" /\ nrotmask = 3 /\ flipud /\ ~fliplr
  /\ mask = <<<<1, 2>>>>
  /\ last.maskdata = <<<<2>>, <<1>>>>
  /\ AlignExport(mask, 1, FALSE, TRUE) = <<<<2>>, <<1>>>>

====
